---- MODULE Spec2Model ----
(***************************************************************************)
(* A model of generate_skewt.py: the profile resolution pipeline of main   *)
(* (candidate model runs tried in order, the core variables and one        *)
(* humidity variable fetched for each, the unit conversion, the derived    *)
(* quantities and the joint pressure sort) and of get_nearest_profile.     *)
(*                                                                         *)
(* Reference times are represented by their position in times_to_try       *)
(* (1 is latest_run, every next one is three hours earlier).  A fetched    *)
(* column is a record of the run it was fetched for and its per-level      *)
(* values; temperatures, winds and humidities are symbolic values tagged   *)
(* with the level they belong to, pressures are numbers in Pa.             *)
(***************************************************************************)
EXTENDS Integers, Sequences, FiniteSets, Bags, TLC

VARIABLES
    pc,              \* position of main in its code
    ri,              \* position of the for loop in times_to_try (0: not started)
    vi,              \* position of the inner loop in CORE_VARS or in the humidity names
    success,         \* main's success
    profile_data,    \* main's profile_data: key -> column (HUM_TYPE -> name)
    ref_time_final,  \* main's ref_time_final (0: None)
    response,        \* what the last external fetch + get_nearest_profile returned
    calls,           \* the external fetches issued so far, in order
    printed,         \* the lines printed so far
    escaped,         \* the exception that left main ("none": none)
    p, t, u, v,      \* main's arrays after the unit conversion
    wind_speed, td,  \* main's derived arrays
    inds,            \* main's inds
    ds, target,      \* get_nearest_profile: the field and the target point
    profile,         \* get_nearest_profile: what it extracted
    now,             \* main's now
    times_to_try     \* main's times_to_try (empty: not computed yet)

vars == <<pc, ri, vi, success, profile_data, ref_time_final, response, calls,
          printed, escaped, p, t, u, v, wind_speed, td, inds, ds, target, profile,
          now, times_to_try>>

mainVars == <<pc, ri, vi, success, profile_data, ref_time_final, response, calls,
              printed, escaped, p, t, u, v, wind_speed, td, inds>>

gridVars == <<ds, target, profile>>

timeVars == <<now, times_to_try>>

-----------------------------------------------------------------------------
(* Program constants *)

\* range(4): the number of candidate runs in times_to_try
NumRuns == 4

\* the size floor of `res.size < 5` and `res_h.size >= 5`
MinSize == 5

CORE_VARS == <<"T", "U", "V", "P">>

\* the names of `for hum_var in ["RELHUM", "QV"]`
HUM_VARS == <<"RELHUM", "QV">>

(* Bounds *)

\* the longest column a fetch returns
MaxSize == 6

\* the longest pressure column of the runs that start at the unit conversion
MaxLevels == 5

\* the largest latitude or longitude of a mesh point or of the target (from 0)
MaxCoord == 2

\* the most cells of an unstructured mesh
MaxCells == 2

\* the most points along one axis of a regular grid
MaxAxis == 2

\* the current time is on one of the days 1..MaxDay
MaxDay == 2

\* the sizes a fetched column has: below the floor, at it, above it
Sizes == {MinSize - 1, MinSize, MaxSize}

-----------------------------------------------------------------------------
(* Data *)

NotSet == "unset"

\* the pressures (Pa) of a fetched P column of the pipeline runs, level by level
SampleP(i) ==
    CASE i = 1 -> 70000
      [] i = 2 -> 30000
      [] i = 3 -> 100000
      [] i = 4 -> 50000
      [] i = 5 -> 85000
      [] OTHER -> 30000 - (i - 6) * 5000

\* the value of variable var at level i of a fetched column
LevelValue(var, i) == IF var = "P" THEN SampleP(i) ELSE <<var, i>>

\* the column of s levels that a fetch of var for run returns
Column(var, run, s) ==
    [run |-> run, name |-> var, values |-> [i \in 1..s |-> LevelValue(var, i)]]

\* res.size
Size(col) == Len(col.values)

\* what `get_nearest_profile(ogd_api.get_from_ogd(req), ...)` can do for one
\* request: raise, return None, or return a column
Responses(var, run) ==
    {[kind |-> "raise"], [kind |-> "none"]}
        \cup {[kind |-> "column", column |-> Column(var, run, s)] : s \in Sizes}

\* Put keeping the value a key already has
Put_KeepsOld(d, k, val) == [x \in (DOMAIN d) \cup {k} |-> IF x \in DOMAIN d THEN d[x] ELSE val]

\* d[k] = val
Put(d, k, val) == [x \in (DOMAIN d) \cup {k} |-> IF x = k THEN val ELSE d[x]]

EmptyDict == [x \in {} |-> NotSet]

NoArray == <<>>

-----------------------------------------------------------------------------
(* The lines main prints *)

Fetching == [line |-> "Fetching ICON-CH1 data from MeteoSwiss..."]

Attempting(run) == [line |-> "--- Attempting Run", run |-> run]

RunIncomplete(run, e) == [line |-> "Run incomplete", run |-> run, e |-> e]

NoCompleteRuns == [line |-> "Error: No complete model runs found."]

\* the exception an external fetch raised for var
FetchError(var) == <<"fetch error", var>>

\* ValueError(f"Empty {var}")
Empty(var) == <<"Empty", var>>

\* ValueError("No Humidity")
NoHumidity == <<"No Humidity">>

-----------------------------------------------------------------------------
(* main: the candidate list.  A datetime is its fields, the date being the   *)
(* day's ordinal number, so that the day before day d is d - 1 whatever the  *)
(* month.                                                                    *)

\* the hours between two model runs: `(now.hour // 3) * 3` and `hours=i*3`
RunInterval == 3

\* seconds since the start of day 0
ToSeconds(dt) == ((dt.day * 24 + dt.hour) * 60 + dt.minute) * 60 + dt.second

\* dt - datetime.timedelta(hours=h)
MinusHours(dt, h) ==
    LET s == ToSeconds(dt) - h * 3600 IN
    [day |-> s \div 86400, hour |-> (s % 86400) \div 3600,
     minute |-> (s % 3600) \div 60, second |-> s % 60,
     microsecond |-> dt.microsecond]

\* BaseHour without the rounding
BaseHour_Hour(dt) == dt.hour

\* `base_hour = (now.hour // 3) * 3`
BaseHour(dt) == (dt.hour \div RunInterval) * RunInterval

\* `latest_run = now.replace(hour=base_hour, minute=0, second=0, microsecond=0)`
LatestRun(dt) ==
    [dt EXCEPT !.hour = BaseHour(dt), !.minute = 0, !.second = 0, !.microsecond = 0]

\* `[latest_run - datetime.timedelta(hours=i*3) for i in range(4)]`
TimesToTry(dt) ==
    [i \in 1..NumRuns |-> MinusHours(LatestRun(dt), (i - 1) * RunInterval)]

\* the current time of the executions of the loop
SampleNow == [day |-> 1, hour |-> 14, minute |-> 25, second |-> 7, microsecond |-> 0]

\* the candidate list as the loop finds it
TimesSet == now = SampleNow /\ times_to_try = TimesToTry(SampleNow)

-----------------------------------------------------------------------------
(* main: the candidate loop *)

MainInit ==
    /\ pc = "for"
    /\ ri = 0
    /\ vi = 0
    /\ success = FALSE
    /\ profile_data = EmptyDict
    /\ ref_time_final = 0
    /\ response = [kind |-> "unset"]
    /\ calls = <<>>
    /\ printed = <<Fetching>>
    /\ escaped = "none"
    /\ p = NoArray /\ t = NoArray /\ u = NoArray /\ v = NoArray
    /\ wind_speed = NoArray /\ td = NoArray /\ inds = NoArray

\* NextRun starting over at the first candidate when the list is used up
NextRun_Revisit ==
    /\ pc = "for"
    /\ ri' = IF ri < NumRuns THEN ri + 1 ELSE 1
    /\ printed' = Append(printed, Attempting(ri'))
    /\ vi' = 1
    /\ pc' = "core"
    /\ UNCHANGED <<success, profile_data, ref_time_final, response, calls, escaped,
                   p, t, u, v, wind_speed, td, inds>>
    /\ UNCHANGED gridVars
    /\ UNCHANGED timeVars

\* `for ref_time in times_to_try:` and the print that opens the attempt
NextRun ==
    /\ pc = "for"
    /\ IF ri < NumRuns
         THEN /\ ri' = ri + 1
              /\ printed' = Append(printed, Attempting(ri + 1))
              /\ vi' = 1
              /\ pc' = "core"
         ELSE /\ pc' = "after_loop"
              /\ UNCHANGED <<ri, printed, vi>>
    /\ UNCHANGED <<success, profile_data, ref_time_final, response, calls, escaped,
                   p, t, u, v, wind_speed, td, inds>>
    /\ UNCHANGED gridVars
    /\ UNCHANGED timeVars

\* RunFailed with the print left out
RunFailed_Silent(e) ==
    /\ printed' = printed
    /\ pc' = "for"

\* `except Exception as e: print(f"Run incomplete: {e}")`, and on to the next run
RunFailed(e) ==
    /\ printed' = Append(printed, RunIncomplete(ri, e))
    /\ pc' = "for"

\* Accepted with the size floor left out
Accepted_NoFloor(r) == r.kind = "column"

\* whether `res is None or res.size < 5` is false
Accepted(r) == r.kind = "column" /\ ~(Size(r.column) < MinSize)

\* the record of one external fetch: the run and the name requested, and
\* whether main accepted what came back
Call(run, var, r) == [run |-> run, name |-> var, accepted |-> Accepted(r)]

\* one pass of `for var in CORE_VARS:`: the fetch, the size check, the store
FetchCore ==
    /\ pc = "core"
    /\ LET var == CORE_VARS[vi] IN
       \E r \in Responses(var, ri) :
          /\ response' = r
          /\ calls' = Append(calls, Call(ri, var, r))
          /\ IF r.kind = "raise"
               THEN /\ RunFailed(FetchError(var))
                    /\ UNCHANGED <<profile_data, vi>>
               ELSE IF ~Accepted(r)
                 THEN /\ RunFailed(Empty(var))
                      /\ UNCHANGED <<profile_data, vi>>
                 ELSE /\ profile_data' = Put(profile_data, var, r.column)
                      /\ IF vi < Len(CORE_VARS)
                           THEN vi' = vi + 1 /\ pc' = "core"
                           ELSE vi' = 1 /\ pc' = "hum"
                      /\ UNCHANGED printed
    /\ UNCHANGED <<ri, success, ref_time_final, escaped,
                   p, t, u, v, wind_speed, td, inds>>
    /\ UNCHANGED gridVars
    /\ UNCHANGED timeVars

\* FetchHum with the `break` left out: the next name is fetched all the same
FetchHum_NoBreak ==
    /\ pc = "hum"
    /\ LET hum_var == HUM_VARS[vi] IN
       \E r \in Responses(hum_var, ri) :
          /\ response' = r
          /\ calls' = Append(calls, Call(ri, hum_var, r))
          /\ profile_data' =
                IF Accepted(r)
                  THEN Put(Put(profile_data, "HUM", r.column), "HUM_TYPE", hum_var)
                  ELSE profile_data
          /\ IF vi < Len(HUM_VARS)
               THEN vi' = vi + 1 /\ pc' = "hum"
               ELSE pc' = "hum_check" /\ UNCHANGED vi
    /\ UNCHANGED <<ri, success, ref_time_final, printed, escaped,
                   p, t, u, v, wind_speed, td, inds>>
    /\ UNCHANGED gridVars
    /\ UNCHANGED timeVars

\* FetchHum tagging whatever it accepts with the first name of the list
FetchHum_FirstName ==
    /\ pc = "hum"
    /\ LET hum_var == HUM_VARS[vi] IN
       \E r \in Responses(hum_var, ri) :
          /\ response' = r
          /\ calls' = Append(calls, Call(ri, hum_var, r))
          /\ IF Accepted(r)
               THEN /\ profile_data' =
                          Put(Put(profile_data, "HUM", r.column), "HUM_TYPE", HUM_VARS[1])
                    /\ pc' = "hum_check"
                    /\ UNCHANGED vi
               ELSE /\ UNCHANGED profile_data
                    /\ IF vi < Len(HUM_VARS)
                         THEN vi' = vi + 1 /\ pc' = "hum"
                         ELSE pc' = "hum_check" /\ UNCHANGED vi
    /\ UNCHANGED <<ri, success, ref_time_final, printed, escaped,
                   p, t, u, v, wind_speed, td, inds>>
    /\ UNCHANGED gridVars
    /\ UNCHANGED timeVars

\* one pass of `for hum_var in ["RELHUM", "QV"]:`; a raise is swallowed by the
\* bare except, an accepted column is stored with its name and ends the loop
FetchHum ==
    /\ pc = "hum"
    /\ LET hum_var == HUM_VARS[vi] IN
       \E r \in Responses(hum_var, ri) :
          /\ response' = r
          /\ calls' = Append(calls, Call(ri, hum_var, r))
          /\ IF Accepted(r)
               THEN /\ profile_data' =
                          Put(Put(profile_data, "HUM", r.column), "HUM_TYPE", hum_var)
                    /\ pc' = "hum_check"
                    /\ UNCHANGED vi
               ELSE /\ UNCHANGED profile_data
                    /\ IF vi < Len(HUM_VARS)
                         THEN vi' = vi + 1 /\ pc' = "hum"
                         ELSE pc' = "hum_check" /\ UNCHANGED vi
    /\ UNCHANGED <<ri, success, ref_time_final, printed, escaped,
                   p, t, u, v, wind_speed, td, inds>>
    /\ UNCHANGED gridVars
    /\ UNCHANGED timeVars

\* CheckHum with the `break` left out: the loop goes on after a success
CheckHum_NoBreak ==
    /\ pc = "hum_check"
    /\ IF "HUM" \notin DOMAIN profile_data
         THEN /\ RunFailed(NoHumidity)
              /\ UNCHANGED <<success, ref_time_final>>
         ELSE /\ success' = TRUE
              /\ ref_time_final' = ri
              /\ pc' = "for"
              /\ UNCHANGED printed
    /\ UNCHANGED <<ri, vi, profile_data, response, calls, escaped,
                   p, t, u, v, wind_speed, td, inds>>
    /\ UNCHANGED gridVars
    /\ UNCHANGED timeVars

\* `if "HUM" not in profile_data: raise ValueError("No Humidity")`, else
\* `success, ref_time_final = True, ref_time` and `break`
CheckHum ==
    /\ pc = "hum_check"
    /\ IF "HUM" \notin DOMAIN profile_data
         THEN /\ RunFailed(NoHumidity)
              /\ UNCHANGED <<success, ref_time_final>>
         ELSE /\ success' = TRUE
              /\ ref_time_final' = ri
              /\ pc' = "after_loop"
              /\ UNCHANGED printed
    /\ UNCHANGED <<ri, vi, profile_data, response, calls, escaped,
                   p, t, u, v, wind_speed, td, inds>>
    /\ UNCHANGED gridVars
    /\ UNCHANGED timeVars

\* `if not success: print(...); return`
AfterLoop ==
    /\ pc = "after_loop"
    /\ IF ~success
         THEN /\ printed' = Append(printed, NoCompleteRuns)
              /\ pc' = "returned"
         ELSE /\ pc' = "convert"
              /\ UNCHANGED printed
    /\ UNCHANGED <<ri, vi, success, profile_data, ref_time_final, response, calls,
                   escaped, p, t, u, v, wind_speed, td, inds>>
    /\ UNCHANGED gridVars
    /\ UNCHANGED timeVars

-----------------------------------------------------------------------------
(* Arrays.  Indices are 1-based here and 0-based in the code. *)

Max(a, b) == IF a >= b THEN a ELSE b

\* whether numpy broadcasts the shapes of two 1-D arrays to a common shape
Broadcastable(a, b) == Len(a) = Len(b) \/ Len(a) = 1 \/ Len(b) = 1

\* element i of 1-D array a broadcast against a longer array
At(a, i) == IF Len(a) = 1 THEN a[1] ELSE a[i]

\* the index arrays that put a in ascending order.  numpy's default sort is
\* not stable: equal elements come in any order
RECURSIVE AscOrders(_, _)
AscOrders(a, rest) ==
    IF rest = {} THEN {<<>>}
    ELSE LET lo == CHOOSE i \in rest : \A j \in rest : a[i] <= a[j]
         IN  UNION {{<<i>> \o o : o \in AscOrders(a, rest \ {i})} :
                        i \in {k \in rest : a[k] = a[lo]}}

\* a.argsort()
Argsort(a) == AscOrders(a, 1..Len(a))

\* s[::-1]
Reversed(s) == [i \in 1..Len(s) |-> s[Len(s) + 1 - i]]

\* whether a[ix] raises no IndexError
InBounds(a, ix) == \A i \in 1..Len(ix) : ix[i] <= Len(a)

\* a[ix], indexing with an integer array
Take(a, ix) == [i \in 1..Len(ix) |-> a[ix[i]]]

\* mpcalc.wind_speed(u, v).to(units('km/h')) at one level
WindSpeedOf(ui, vi_) == [f |-> "wind_speed", u |-> ui, v |-> vi_]

\* mpcalc.dewpoint_from_relative_humidity(t, hum / 100.0) at one level
DewpointRH(ti, hi) == [f |-> "dewpoint_from_relative_humidity", t |-> ti,
                       rh |-> <<hi, "/100">>]

\* mpcalc.dewpoint_from_specific_humidity(p, t, hum) at one level
DewpointQV(pi, hi) == [f |-> "dewpoint_from_specific_humidity", p |-> pi, q |-> hi]

-----------------------------------------------------------------------------
(* main: after the loop *)

\* an exception outside any try: it leaves main
Raise(exc) ==
    /\ escaped' = exc
    /\ pc' = "raised"

\* `p = profile_data["P"].values * units.Pa` and the three lines after it
UnitConversion ==
    /\ pc = "convert"
    /\ IF {"P", "T", "U", "V"} \subseteq DOMAIN profile_data
         THEN /\ p' = profile_data["P"].values
              /\ t' = profile_data["T"].values
              /\ u' = profile_data["U"].values
              /\ v' = profile_data["V"].values
              /\ pc' = "wind"
              /\ UNCHANGED escaped
         ELSE /\ Raise("KeyError")
              /\ UNCHANGED <<p, t, u, v>>
    /\ UNCHANGED <<ri, vi, success, profile_data, ref_time_final, response, calls,
                   printed, wind_speed, td, inds>>
    /\ UNCHANGED gridVars
    /\ UNCHANGED timeVars

\* `wind_speed = mpcalc.wind_speed(u, v).to(units('km/h'))`
WindSpeed ==
    /\ pc = "wind"
    /\ IF Broadcastable(u, v)
         THEN /\ wind_speed' = [i \in 1..Max(Len(u), Len(v)) |->
                                    WindSpeedOf(At(u, i), At(v, i))]
              /\ pc' = "dewpoint"
              /\ UNCHANGED escaped
         ELSE /\ Raise("ValueError")
              /\ UNCHANGED wind_speed
    /\ UNCHANGED <<ri, vi, success, profile_data, ref_time_final, response, calls,
                   printed, p, t, u, v, td, inds>>
    /\ UNCHANGED gridVars
    /\ UNCHANGED timeVars

\* the formula `if profile_data["HUM_TYPE"] == "RELHUM":` selects
DewpointFormula == IF profile_data["HUM_TYPE"] = "RELHUM" THEN "RELHUM" ELSE "QV"

\* `td = mpcalc.dewpoint_from_...`: either formula works level by level on
\* arrays of one shape.  Whether the specific-humidity formula reads t depends
\* on the MetPy release (it ignores temperature since 1.6).
Dewpoint ==
    /\ pc = "dewpoint"
    /\ LET hum == profile_data["HUM"].values IN
       IF DewpointFormula = "RELHUM"
         THEN IF Broadcastable(t, hum)
                THEN /\ td' = [i \in 1..Max(Len(t), Len(hum)) |->
                                   DewpointRH(At(t, i), At(hum, i))]
                     /\ pc' = "sort"
                     /\ UNCHANGED escaped
                ELSE /\ Raise("ValueError")
                     /\ UNCHANGED td
         ELSE \E readsT \in BOOLEAN :
              IF Broadcastable(p, hum) /\ (readsT => Len(t) = Len(p))
                THEN /\ td' = [i \in 1..Max(Len(p), Len(hum)) |->
                                   DewpointQV(At(p, i), At(hum, i))]
                     /\ pc' = "sort"
                     /\ UNCHANGED escaped
                ELSE /\ Raise("ValueError")
                     /\ UNCHANGED td
    /\ UNCHANGED <<ri, vi, success, profile_data, ref_time_final, response, calls,
                   printed, p, t, u, v, wind_speed, inds>>
    /\ UNCHANGED gridVars
    /\ UNCHANGED timeVars

\* SortOrders with the `[::-1]` left out
SortOrders_Ascending == Argsort(p)

\* `inds = p.argsort()[::-1]`
SortOrders == {Reversed(o) : o \in Argsort(p)}

\* JointSort with wind_speed left out of the reordering
JointSort_KeepsWind ==
    /\ pc = "sort"
    /\ \E ix \in SortOrders :
          /\ inds' = ix
          /\ IF /\ InBounds(p, ix) /\ InBounds(t, ix) /\ InBounds(td, ix)
                /\ InBounds(u, ix) /\ InBounds(v, ix) /\ InBounds(wind_speed, ix)
               THEN /\ p' = Take(p, ix)
                    /\ t' = Take(t, ix)
                    /\ td' = Take(td, ix)
                    /\ u' = Take(u, ix)
                    /\ v' = Take(v, ix)
                    /\ wind_speed' = wind_speed
                    /\ pc' = "plot"
                    /\ UNCHANGED escaped
               ELSE /\ Raise("IndexError")
                    /\ UNCHANGED <<p, t, td, u, v, wind_speed>>
    /\ UNCHANGED <<ri, vi, success, profile_data, ref_time_final, response, calls,
                   printed>>
    /\ UNCHANGED gridVars
    /\ UNCHANGED timeVars

\* JointSort with t left out of the reordering
JointSort_KeepsT ==
    /\ pc = "sort"
    /\ \E ix \in SortOrders :
          /\ inds' = ix
          /\ IF /\ InBounds(p, ix) /\ InBounds(t, ix) /\ InBounds(td, ix)
                /\ InBounds(u, ix) /\ InBounds(v, ix) /\ InBounds(wind_speed, ix)
               THEN /\ p' = Take(p, ix)
                    /\ t' = t
                    /\ td' = Take(td, ix)
                    /\ u' = Take(u, ix)
                    /\ v' = Take(v, ix)
                    /\ wind_speed' = Take(wind_speed, ix)
                    /\ pc' = "plot"
                    /\ UNCHANGED escaped
               ELSE /\ Raise("IndexError")
                    /\ UNCHANGED <<p, t, td, u, v, wind_speed>>
    /\ UNCHANGED <<ri, vi, success, profile_data, ref_time_final, response, calls,
                   printed>>
    /\ UNCHANGED gridVars
    /\ UNCHANGED timeVars

\* `p, t, td, u, v, wind_speed = p[inds], t[inds], ...`: one index array for all
JointSort ==
    /\ pc = "sort"
    /\ \E ix \in SortOrders :
          /\ inds' = ix
          /\ IF /\ InBounds(p, ix) /\ InBounds(t, ix) /\ InBounds(td, ix)
                /\ InBounds(u, ix) /\ InBounds(v, ix) /\ InBounds(wind_speed, ix)
               THEN /\ p' = Take(p, ix)
                    /\ t' = Take(t, ix)
                    /\ td' = Take(td, ix)
                    /\ u' = Take(u, ix)
                    /\ v' = Take(v, ix)
                    /\ wind_speed' = Take(wind_speed, ix)
                    /\ pc' = "plot"
                    /\ UNCHANGED escaped
               ELSE /\ Raise("IndexError")
                    /\ UNCHANGED <<p, t, td, u, v, wind_speed>>
    /\ UNCHANGED <<ri, vi, success, profile_data, ref_time_final, response, calls,
                   printed>>
    /\ UNCHANGED gridVars
    /\ UNCHANGED timeVars

-----------------------------------------------------------------------------
\* get_nearest_profile as main sees it: through the responses of its fetches
GridIdle == ds = [layout |-> "unset"] /\ target = <<0, 0>> /\ profile = [kind |-> "unset"]

Init == MainInit /\ GridIdle /\ TimesSet

Next ==
    \/ NextRun
    \/ FetchCore
    \/ FetchHum
    \/ CheckHum
    \/ AfterLoop
    \/ UnitConversion
    \/ WindSpeed
    \/ Dewpoint
    \/ JointSort

Spec == Init /\ [][Next]_vars

\* main is one sequential process that keeps running while it has a step to
\* take: every external fetch returns or raises
FairSpec == Spec /\ WF_vars(Next)

-----------------------------------------------------------------------------
(* main from the unit conversion on, for every pressure column: the state    *)
(* main is in when the first run was accepted with columns of n levels, the  *)
(* pressures of the P column being any of PLevels in any order.              *)

\* the pressures (Pa) a level of the P column has
PLevels == {30000, 50000, 70000, 85000, 100000}

\* the fetches main has issued when run 1 was accepted with humidity name h
CallsUntil(h) ==
    [i \in 1..Len(CORE_VARS) |-> [run |-> 1, name |-> CORE_VARS[i], accepted |-> TRUE]]
        \o (IF h = "RELHUM" THEN <<>>
            ELSE <<[run |-> 1, name |-> "RELHUM", accepted |-> FALSE]>>)
        \o <<[run |-> 1, name |-> h, accepted |-> TRUE]>>

SortInit ==
    \E n \in MinSize..MaxLevels : \E pv \in [1..n -> PLevels] : \E h \in {"RELHUM", "QV"} :
        /\ pc = "convert"
        /\ ri = 1
        /\ vi = IF h = "RELHUM" THEN 1 ELSE 2
        /\ success = TRUE
        /\ profile_data =
              [k \in {"T", "U", "V", "P", "HUM", "HUM_TYPE"} |->
                  CASE k = "P" -> [run |-> 1, name |-> "P", values |-> pv]
                    [] k = "HUM" -> Column(h, 1, n)
                    [] k = "HUM_TYPE" -> h
                    [] OTHER -> Column(k, 1, n)]
        /\ ref_time_final = 1
        /\ response = [kind |-> "column", column |-> Column(h, 1, n)]
        /\ calls = CallsUntil(h)
        /\ printed = <<Fetching, Attempting(1)>>
        /\ escaped = "none"
        /\ p = NoArray /\ t = NoArray /\ u = NoArray /\ v = NoArray
        /\ wind_speed = NoArray /\ td = NoArray /\ inds = NoArray
        /\ GridIdle
        /\ TimesSet

SortNext ==
    \/ UnitConversion
    \/ WindSpeed
    \/ Dewpoint
    \/ JointSort

SpecSort == SortInit /\ [][SortNext]_vars

-----------------------------------------------------------------------------
(* main from the unit conversion on, when the accepted P column holds values *)
(* no pressure can have: the fetch stage checks sizes only, so any number    *)
(* that comes back is stored.                                                *)

\* the pressures (Pa) a level of the P column has: one negative, two valid
DomainLevels == {0 - 100, 85000, 100000}

DomainInit ==
    \E n \in MinSize..MaxLevels : \E pv \in [1..n -> DomainLevels] :
    \E h \in {"RELHUM", "QV"} :
        /\ pc = "convert"
        /\ ri = 1
        /\ vi = IF h = "RELHUM" THEN 1 ELSE 2
        /\ success = TRUE
        /\ profile_data =
              [k \in {"T", "U", "V", "P", "HUM", "HUM_TYPE"} |->
                  CASE k = "P" -> [run |-> 1, name |-> "P", values |-> pv]
                    [] k = "HUM" -> Column(h, 1, n)
                    [] k = "HUM_TYPE" -> h
                    [] OTHER -> Column(k, 1, n)]
        /\ ref_time_final = 1
        /\ response = [kind |-> "column", column |-> Column(h, 1, n)]
        /\ calls = CallsUntil(h)
        /\ printed = <<Fetching, Attempting(1)>>
        /\ escaped = "none"
        /\ p = NoArray /\ t = NoArray /\ u = NoArray /\ v = NoArray
        /\ wind_speed = NoArray /\ td = NoArray /\ inds = NoArray
        /\ GridIdle
        /\ TimesSet

SpecDomain == DomainInit /\ [][SortNext]_vars

-----------------------------------------------------------------------------
(* get_nearest_profile.  A field is given by the layout of its horizontal    *)
(* coordinates, as xarray holds them:                                        *)
(*   "cells"   dims (z, cell), lat(cell) and lon(cell): an unstructured mesh *)
(*   "axes"    dims (z, lat, lon), lat(lat) and lon(lon): a regular grid with *)
(*             one coordinate array per axis                                 *)
(*   "mesh2d"  dims (z, y, x), lat(y, x) and lon(y, x): a regular grid with   *)
(*             two-dimensional coordinate arrays                             *)
(* A horizontal point is the tuple of its indices, counted from 1.           *)

GridCoords == 0..MaxCoord

\* the strictly increasing coordinate arrays of n points
Axes(n) == {a \in [1..n -> GridCoords] : \A i, j \in 1..n : i < j => a[i] < a[j]}

CellFields ==
    UNION {{[layout |-> "cells", lat |-> la, lon |-> lo] :
               la \in [1..n -> GridCoords], lo \in [1..n -> GridCoords]} :
           n \in 1..MaxCells}

RegularFields ==
    UNION {{[layout |-> ly, lat |-> la, lon |-> lo] :
               ly \in {"axes", "mesh2d"}, la \in Axes(n), lo \in Axes(m)} :
           n \in 1..MaxAxis, m \in 1..MaxAxis}

\* `ds is None`
None == [layout |-> "None"]

\* no profile extracted yet
NoProfile == [kind |-> "unset"]

\* the sizes of the horizontal dimensions of the data, in the data's order
HorizShape(f) ==
    IF f.layout = "cells" THEN <<Len(f.lat)>> ELSE <<Len(f.lat), Len(f.lon)>>

\* the latitude and the longitude of horizontal point pt
PointLat(f, pt) == f.lat[pt[1]]

PointLon(f, pt) == IF f.layout = "cells" THEN f.lon[pt[1]] ELSE f.lon[pt[2]]

\* every horizontal point, in the order of the flattened horizontal axes
PointSeq(f) ==
    IF f.layout = "cells"
      THEN [q \in 1..Len(f.lat) |-> <<q>>]
      ELSE [q \in 1..(Len(f.lat) * Len(f.lon)) |->
               <<((q - 1) \div Len(f.lon)) + 1, ((q - 1) % Len(f.lon)) + 1>>]

\* `data.coords[lat_coord].dims`, as positions among the horizontal dimensions
HorizDims(f) == IF f.layout = "mesh2d" THEN <<1, 2>> ELSE <<1>>

SqDist(la, lo, tgt) == (la - tgt[1]) * (la - tgt[1]) + (lo - tgt[2]) * (lo - tgt[2])

\* `dist = (data[lat_coord] - lat_target)**2 + (data[lon_coord] - lon_target)**2`,
\* flattened.  The two terms are broadcast by dimension name: over cell for
\* "cells", over (lat, lon) for "axes", over (y, x) for "mesh2d".
Dist(f, tgt) ==
    [q \in 1..Len(PointSeq(f)) |->
        SqDist(PointLat(f, PointSeq(f)[q]), PointLon(f, PointSeq(f)[q]), tgt)]

\* `dist.argmin().values`: the position (from 0) of the first minimum of the
\* flattened array
Argmin(a) ==
    (CHOOSE i \in 1..Len(a) :
        /\ \A j \in 1..Len(a) : a[i] <= a[j]
        /\ \A j \in 1..(i - 1) : a[j] > a[i]) - 1

\* `data.isel({horiz_dims[0]: flat_idx})`: the horizontal points left, or an
\* IndexError when flat_idx is beyond the dimension
Isel(f, dim, flat_idx) ==
    IF flat_idx >= HorizShape(f)[dim]
      THEN [kind |-> "IndexError"]
      ELSE [kind |-> "data",
            points |-> {PointSeq(f)[q] : q \in {r \in 1..Len(PointSeq(f)) :
                                                   PointSeq(f)[r][dim] = flat_idx + 1}}]

\* `data.stack(gp=horiz_dims).isel(gp=flat_idx)`
StackIsel(f, flat_idx) ==
    IF flat_idx >= Len(PointSeq(f))
      THEN [kind |-> "IndexError"]
      ELSE [kind |-> "data", points |-> {PointSeq(f)[flat_idx + 1]}]

\* what get_nearest_profile(f, tgt) returns: the horizontal points whose
\* columns make up the result (squeeze drops the axes of size 1 and no other)
NearestProfile(f, tgt) ==
    IF f.layout = "None" THEN [kind |-> "None"]
    ELSE LET horiz_dims == HorizDims(f)
             flat_idx == Argmin(Dist(f, tgt))
         IN  IF Len(horiz_dims) = 1
               THEN Isel(f, horiz_dims[1], flat_idx)
               ELSE StackIsel(f, flat_idx)

GridInit ==
    /\ ds \in CellFields \cup RegularFields \cup {None}
    /\ target \in GridCoords \X GridCoords
    /\ profile = NoProfile

\* one call of get_nearest_profile(ds, lat_target, lon_target)
GetNearestProfile ==
    /\ profile = NoProfile
    /\ profile' = NearestProfile(ds, target)
    /\ UNCHANGED <<ds, target>>
    /\ UNCHANGED mainVars
    /\ UNCHANGED timeVars

GridNext == GetNearestProfile

GridSpecInit == GridInit /\ MainInit /\ TimesSet

SpecGrid == GridSpecInit /\ [][GridNext]_vars

-----------------------------------------------------------------------------
(* main before the loop: the candidate list, for the current times of every  *)
(* hour and minute of a day, at both ends of a minute and of a second.       *)

\* the values `datetime.datetime.now(datetime.timezone.utc)` returns
Nows ==
    [day : 1..MaxDay, hour : 0..23, minute : 0..59, second : {0, 59},
     microsecond : {0, 999999}]

TimesInit ==
    /\ now \in Nows
    /\ times_to_try = <<>>
    /\ pc = "times"
    /\ ri = 0
    /\ vi = 0
    /\ success = FALSE
    /\ profile_data = EmptyDict
    /\ ref_time_final = 0
    /\ response = [kind |-> "unset"]
    /\ calls = <<>>
    /\ printed = <<Fetching>>
    /\ escaped = "none"
    /\ p = NoArray /\ t = NoArray /\ u = NoArray /\ v = NoArray
    /\ wind_speed = NoArray /\ td = NoArray /\ inds = NoArray
    /\ GridIdle

\* lines 53 to 57: from now to times_to_try
ComputeTimes ==
    /\ pc = "times"
    /\ times_to_try' = TimesToTry(now)
    /\ pc' = "for"
    /\ UNCHANGED <<now, ri, vi, success, profile_data, ref_time_final, response, calls,
                   printed, escaped, p, t, u, v, wind_speed, td, inds>>
    /\ UNCHANGED gridVars

TimesNext == ComputeTimes

SpecTimes == TimesInit /\ [][TimesNext]_vars

-----------------------------------------------------------------------------
(* Properties of the candidate loop *)

Runs == 1..NumRuns

CoreNames == {CORE_VARS[i] : i \in 1..Len(CORE_VARS)}

HumNames == {HUM_VARS[i] : i \in 1..Len(HUM_VARS)}

ColumnKeys == CoreNames \cup {"HUM"}

\* the positions in calls of the fetches issued for run c
CallsOf(c) == {i \in 1..Len(calls) : calls[i].run = c}

Attempted(c) == CallsOf(c) # {}

\* the names whose fetch for run c came back with an accepted column
AcceptedNames(c) == {calls[i].name : i \in {j \in CallsOf(c) : calls[j].accepted}}

\* run c is complete: T, U, V, P and one humidity variable were all accepted
Complete(c) == CoreNames \subseteq AcceptedNames(c) /\ AcceptedNames(c) \cap HumNames # {}

\* main is past the candidate loop on the success path
PastLoop == pc \in {"convert", "wind", "dewpoint", "sort", "plot", "raised"}

\* C1: the candidates are attempted in list order; a candidate is fetched for
\* only when every candidate before it was attempted and found incomplete, so
\* nothing is fetched for a candidate after a complete one; the winning run
\* ref_time_final is complete, and a complete candidate is the winning run.
C1_FirstCompleteWins ==
    LET attempted == {c \in Runs : Attempted(c)}
        complete  == {c \in attempted : Complete(c)}
    IN  /\ \A i \in 1..(Len(calls) - 1) : calls[i].run <= calls[i + 1].run
        /\ \A c \in attempted : \A b \in 1..(c - 1) : b \in attempted \ complete
        /\ \A c \in complete :
               \/ pc = "hum_check" /\ ri = c
               \/ success /\ ref_time_final = c
        /\ success => /\ ref_time_final \in complete
                      /\ \A c \in attempted : c <= ref_time_final
        /\ PastLoop => success

\* C1 witness: only the last candidate but one is complete, and it has won
C1_Witness ==
    /\ pc = "convert"
    /\ success
    /\ ref_time_final = NumRuns - 1
    /\ \A c \in 1..(NumRuns - 2) : Attempted(c) /\ ~Complete(c)

\* C2: whenever success is True the profile holds T, U, V, P and HUM with its
\* HUM_TYPE tag, every column with at least MinSize levels; main reaches the
\* unit conversion only with success True, and no key is ever missing there.
C2_AllOrNothing ==
    /\ success =>
          /\ ColumnKeys \cup {"HUM_TYPE"} \subseteq DOMAIN profile_data
          /\ \A k \in ColumnKeys : Size(profile_data[k]) >= MinSize
          /\ profile_data["HUM_TYPE"] \in HumNames
          /\ profile_data["HUM"].name = profile_data["HUM_TYPE"]
    /\ PastLoop => success
    /\ escaped # "KeyError"

\* C2 witness: the unit conversion is reached after an earlier candidate left
\* part of its columns behind
C2_Witness ==
    /\ pc = "wind"
    /\ ref_time_final = 2
    /\ \E i \in CallsOf(1) : calls[i].name = "V" /\ ~calls[i].accepted

\* the "Run incomplete" lines printed so far, in order
Failures == SelectSeq(printed, LAMBDA l : l.line = "Run incomplete")

\* the last fetch issued for run c
LastCallOf(c) ==
    LET of == CallsOf(c) IN calls[CHOOSE i \in of : \A j \in of : j <= i]

C4_NoCarryOver ==
    /\ (pc = "core" /\ vi = 1) =>
          \A k \in ColumnKeys \cap DOMAIN profile_data : profile_data[k].run >= ri
    /\ (pc = "returned" /\ ~success) => DOMAIN profile_data = {}

\* C5: within one run RELHUM is fetched first (after P was accepted) and QV
\* only right after a RELHUM that was not accepted; an accepted name is the
\* last fetch of the execution and is what HUM_TYPE and HUM hold; a name is
\* accepted exactly when a column of at least MinSize levels came back, and a
\* name that raised, returned nothing or returned a short column stores nothing
\* and leaves the next name to be tried.
C5_HumidityFallback ==
    LET n == Len(calls) IN
    /\ \A i \in 1..n :
          /\ calls[i].name = "RELHUM" =>
                i > 1 /\ calls[i - 1] = [run |-> calls[i].run, name |-> "P", accepted |-> TRUE]
          /\ calls[i].name = "QV" =>
                i > 1 /\ calls[i - 1] = [run |-> calls[i].run, name |-> "RELHUM",
                                         accepted |-> FALSE]
          /\ (calls[i].name \in HumNames /\ calls[i].accepted) =>
                /\ i = n
                /\ profile_data["HUM_TYPE"] = calls[i].name
                /\ profile_data["HUM"].name = calls[i].name
                /\ profile_data["HUM"].run = calls[i].run
                /\ Size(profile_data["HUM"]) >= MinSize
    /\ (n >= 1 /\ calls[n].name \in HumNames) =>
          /\ calls[n].accepted <=>
                (response.kind = "column" /\ Size(response.column) >= MinSize)
          /\ ~calls[n].accepted =>
                /\ "HUM" \notin DOMAIN profile_data
                /\ "HUM_TYPE" \notin DOMAIN profile_data
                /\ calls[n].name = "RELHUM" => pc = "hum" /\ vi = 2
                /\ calls[n].name = "QV" => pc \in {"hum_check", "for", "core", "after_loop",
                                                   "returned"}

\* C5 witness: RELHUM came back short, QV was accepted, the profile says QV
C5_Witness ==
    /\ success
    /\ profile_data["HUM_TYPE"] = "QV"
    /\ Len(calls) >= 2
    /\ calls[Len(calls) - 1] = [run |-> ref_time_final, name |-> "RELHUM", accepted |-> FALSE]
    /\ calls[Len(calls)].name = "QV"

\* C7 as the specification states it: an error that arises for a candidate
\* is caught at that candidate's attempt (a core fetch that was not accepted
\* ends the attempt with success still False), and no exception ever leaves
\* main: main ends with a profile or with the exhaustion message
C7_OnlyExhaustionFails ==
    /\ (Len(calls) >= 1 /\ calls[Len(calls)].name \in CoreNames
            /\ ~calls[Len(calls)].accepted) =>
          /\ pc \in {"for", "core", "after_loop", "returned"}
          /\ ~success
    /\ escaped = "none"
    /\ pc # "raised"

\* C9 as the specification states it: a candidate accepted as the winning run
\* has columns of one length
C9_EqualLengths ==
    success =>
        \A k1, k2 \in ColumnKeys : Size(profile_data[k1]) = Size(profile_data[k2])

-----------------------------------------------------------------------------
(* Properties of the joint sort *)

\* the fetched column of key k, level by level
Fetched(k) == profile_data[k].values

\* how many levels of array a hold x
Count(a, x) == Cardinality({i \in 1..Len(a) : a[i] = x})

NonIncreasing(a) == \A i \in 1..(Len(a) - 1) : a[i] >= a[i + 1]

StrictlyDecreasing(a) == \A i \in 1..(Len(a) - 1) : a[i] > a[i + 1]

\* the pressures and the temperature order of the worked example
ExamplePressures == <<70000, 30000, 100000, 50000, 85000>>

\* C8: after the joint sort the pressures are non-increasing and are the
\* fetched pressures in another order, and every output level holds the values
\* of one input level k, each input level being used once: its pressure,
\* temperature and winds, and the dewpoint and wind speed computed from that
\* level's values.  The pressures of the example come out as
\* 100000, 85000, 70000, 50000, 30000 with the temperatures T2, T4, T0, T3, T1
\* (levels 3, 5, 1, 4, 2 counting from 1).
C8_JointSort ==
    pc = "plot" =>
    LET n == Len(Fetched("P")) IN
        /\ Len(p) = n /\ Len(t) = n /\ Len(u) = n /\ Len(v) = n
        /\ Len(td) = n /\ Len(wind_speed) = n
        /\ NonIncreasing(p)
        /\ \A x \in PLevels : Count(p, x) = Count(Fetched("P"), x)
        /\ {t[i][2] : i \in 1..n} = 1..n
        /\ \A i \in 1..n :
              LET k == t[i][2] IN
                 /\ p[i] = Fetched("P")[k]
                 /\ t[i] = Fetched("T")[k]
                 /\ u[i] = Fetched("U")[k]
                 /\ v[i] = Fetched("V")[k]
                 /\ wind_speed[i].u = Fetched("U")[k]
                 /\ wind_speed[i].v = Fetched("V")[k]
                 /\ IF profile_data["HUM_TYPE"] = "RELHUM"
                      THEN td[i].t = Fetched("T")[k] /\ td[i].rh[1] = Fetched("HUM")[k]
                      ELSE td[i].p = Fetched("P")[k] /\ td[i].q = Fetched("HUM")[k]
        /\ Fetched("P") = ExamplePressures =>
              /\ p = <<100000, 85000, 70000, 50000, 30000>>
              /\ t = <<<<"T", 3>>, <<"T", 5>>, <<"T", 1>>, <<"T", 4>>, <<"T", 2>>>>

\* C8 witness: the example has been sorted
C8_Witness ==
    /\ pc = "plot"
    /\ Fetched("P") = ExamplePressures
    /\ p[1] = 100000 /\ t[1] = <<"T", 3>>

\* C10 as the specification states it: after the sort every level's pressure
\* is strictly greater than the next level's
C10_StrictlyDescending == pc = "plot" => StrictlyDecreasing(p)

\* C10 as amended: after the sort the pressures are non-increasing, and they
\* are strictly descending exactly when no two levels of the fetched pressure
\* column are equal; equal pressures stay next to each other.
C10_DescendingStrictIffDistinct ==
    pc = "plot" =>
        /\ NonIncreasing(p)
        /\ StrictlyDecreasing(p) <=>
              (\A i, j \in 1..Len(Fetched("P")) :
                   i # j => Fetched("P")[i] # Fetched("P")[j])

\* C10 witness: a sorted profile with the same pressure at two levels
C10_Witness ==
    /\ pc = "plot"
    /\ \E i \in 1..(Len(p) - 1) : p[i] = p[i + 1]

-----------------------------------------------------------------------------
(* Properties of get_nearest_profile *)

\* a linear scan of points q..Len(pts) that keeps the best point so far and
\* replaces it only by a strictly nearer one
RECURSIVE Scan(_, _, _, _, _)
Scan(f, tgt, pts, q, best) ==
    IF q > Len(pts) THEN best
    ELSE IF SqDist(PointLat(f, pts[q]), PointLon(f, pts[q]), tgt)
              < SqDist(PointLat(f, best), PointLon(f, best), tgt)
           THEN Scan(f, tgt, pts, q + 1, pts[q])
           ELSE Scan(f, tgt, pts, q + 1, best)

\* the point a brute-force scan in iteration order finds nearest to tgt
BruteForce(f, tgt) == Scan(f, tgt, PointSeq(f), 2, PointSeq(f)[1])

\* C6 as the specification states it: for every field, of either kind of
\* mesh, and every target, what get_nearest_profile extracts is the column of
\* the one point the brute-force scan finds
C6_NearestIsBruteForce ==
    (profile.kind # "unset" /\ ds.layout # "None") =>
        /\ profile.kind = "data"
        /\ profile.points = {BruteForce(ds, target)}

\* get_nearest_profile agrees with the brute-force scan on unstructured meshes
\* and on grids with two-dimensional coordinate arrays
NearestIsBruteForceOffAxes ==
    (profile.kind # "unset" /\ ds.layout \in {"cells", "mesh2d"}) =>
        /\ profile.kind = "data"
        /\ profile.points = {BruteForce(ds, target)}

-----------------------------------------------------------------------------
(* Properties of the humidity tag and the dewpoint formula *)

\* the fetches of a humidity name that were accepted: each one wrote HUM_TYPE
HumTypeWrites == {i \in 1..Len(calls) : calls[i].name \in HumNames /\ calls[i].accepted}

\* the dewpoint stage was entered: line 99 was reached
DewpointEntered ==
    wind_speed # NoArray /\ pc \in {"sort", "plot", "raised"}

\* HUM_TYPE is written at most once, holds the accepted name from then on,
\* and td is made by the formula HUM_TYPE selects: from t and the humidity
\* divided by 100 for RELHUM, from p and the humidity for QV
HumTypeSelectsFormula ==
    /\ Cardinality(HumTypeWrites) <= 1
    /\ "HUM_TYPE" \in DOMAIN profile_data <=> HumTypeWrites # {}
    /\ \A i \in HumTypeWrites : profile_data["HUM_TYPE"] = calls[i].name
    /\ td # NoArray =>
          \A i \in 1..Len(td) :
             /\ td[i].f = "dewpoint_from_relative_humidity"
                   <=> profile_data["HUM_TYPE"] = "RELHUM"
             /\ td[i].f = "dewpoint_from_specific_humidity"
                   <=> profile_data["HUM_TYPE"] = "QV"
             /\ profile_data["HUM_TYPE"] = "RELHUM" =>
                   td[i].rh[1][1] = "RELHUM" /\ td[i].rh[2] = "/100"
             /\ profile_data["HUM_TYPE"] = "QV" => td[i].q[1] = "QV"

\* C11 as the specification states it: HUM_TYPE is written at most once and
\* keeps its value, the formula that makes td is the one HUM_TYPE names, and
\* once a candidate was accepted main does not end without having evaluated
\* one of the two dewpoint formulas
C11_OneFormulaPerSuccess ==
    /\ HumTypeSelectsFormula
    /\ (success /\ pc \in {"plot", "raised"}) => DewpointEntered

-----------------------------------------------------------------------------
(* Termination of main *)

\* main has ended: at the plot, by its early return, or by an exception
Terminated == pc \in {"plot", "returned", "raised"}

\* the attempt of candidate c is over
AttemptOver(c) == c < ri \/ (c = ri /\ pc \notin {"core", "hum", "hum_check"})

\* the "Attempting run" lines printed so far, in order
Attempts == SelectSeq(printed, LAMBDA l : l.line = "--- Attempting Run")

\* candidate c was abandoned: its "Run incomplete" line was printed
Abandoned(c) == \E i \in 1..Len(Failures) : Failures[i].run = c

\* every attempt is opened once, in list order, and an attempt that is over
\* ended either as the winning run or abandoned; when main has ended either a
\* candidate completed, or every candidate was attempted and abandoned
OneOutcomePerCandidate ==
    LET attempts == Attempts
        failures == Failures
        abandoned == {failures[i].run : i \in 1..Len(failures)}
    IN  /\ Len(attempts) = ri
        /\ \A c \in 1..ri : attempts[c] = Attempting(c)
        /\ \A c \in Runs : Attempted(c) => c <= ri
        /\ Len(failures) = Cardinality(abandoned)
        /\ \A c \in 1..ri :
              AttemptOver(c) => ((success /\ ref_time_final = c) <=> c \notin abandoned)
        /\ \A c \in abandoned : c <= ri /\ ~Complete(c)
        /\ success => ri = ref_time_final
        /\ Terminated =>
              IF success THEN pc # "returned" /\ Complete(ref_time_final)
              ELSE /\ pc = "returned"
                   /\ ri = NumRuns
                   /\ abandoned = Runs
                   /\ \A c \in Runs : Attempted(c)

\* C12: main always terminates, with a candidate completed (Success) or with
\* every candidate attempted and abandoned (Exhausted), never both; every
\* attempt that is over ended as the winning run or abandoned, and no
\* candidate is attempted twice.
C12_TerminatesOneOutcome == <>Terminated /\ []OneOutcomePerCandidate

\* C12 witness: the first three candidates were abandoned and the last one won
C12_Witness ==
    /\ Terminated
    /\ success
    /\ ref_time_final = NumRuns
    /\ \A c \in 1..(NumRuns - 1) : Abandoned(c)

-----------------------------------------------------------------------------
(* Properties of the derived-quantity stage *)

\* the accepted profile holds a pressure that is not physically valid
InvalidInput ==
    LET pv == profile_data["P"].values IN \E i \in 1..Len(pv) : pv[i] < 0

\* C13 as the specification states it: when a level of the profile has a
\* negative pressure the derived-quantity stage fails with InvalidUnitDomain
\* before it evaluates the wind-speed or a dewpoint formula, so no derived
\* quantity is ever computed from that profile
C13_RejectsInvalidDomain ==
    InvalidInput =>
        /\ wind_speed = NoArray
        /\ td = NoArray
        /\ pc \notin {"convert", "wind"} => escaped = "InvalidUnitDomain"

\* what the code does instead: it never raises for a value, and when the
\* profile has a negative pressure and HUM_TYPE is QV the dewpoint of that
\* level is computed from the negative pressure
DewpointFromInvalidPressure ==
    (InvalidInput /\ pc \in {"sort", "plot"} /\ profile_data["HUM_TYPE"] = "QV") =>
        /\ escaped = "none"
        /\ \E i \in 1..Len(td) : td[i].p < 0

-----------------------------------------------------------------------------
(* Properties of the shared dictionary *)

\* C14: whenever success is True every column of profile_data (T, U, V, P and
\* HUM) is the one fetched for the winning run ref_time_final, so the derived-
\* quantity stage, reached only with success True, sees no column of an
\* abandoned candidate; and profile_data holds a HUM entry only when it was
\* stored in the current attempt, which then wins.
C14_ProfileOfWinningRun ==
    /\ success =>
          \A k \in ColumnKeys :
             /\ k \in DOMAIN profile_data
             /\ profile_data[k].run = ref_time_final
             /\ profile_data[k].name =
                   (IF k = "HUM" THEN profile_data["HUM_TYPE"] ELSE k)
    /\ "HUM" \in DOMAIN profile_data =>
          /\ profile_data["HUM"].run = ri
          /\ (pc = "hum_check" /\ ~success) \/ (success /\ ref_time_final = ri)
    /\ PastLoop => success
    /\ pc \in {"wind", "dewpoint", "sort"} =>
          /\ p = profile_data["P"].values /\ t = profile_data["T"].values
          /\ u = profile_data["U"].values /\ v = profile_data["V"].values

\* C14 witness: the first candidate stored T, U, V and P and was abandoned for
\* its humidity, a later candidate won, and its profile is at the unit conversion
C14_Witness ==
    /\ pc = "convert"
    /\ success
    /\ ref_time_final > 1
    /\ CoreNames \subseteq AcceptedNames(1)
    /\ \A k \in ColumnKeys : profile_data[k].run = ref_time_final

-----------------------------------------------------------------------------
(* Order of the derived quantities and the sort *)

\* C15 as the specification states it: wind speed and dewpoint are evaluated
\* only after the arrays were put in descending-pressure order, never on the
\* unsorted fetched columns
C15_SortBeforeDerived ==
    (wind_speed # NoArray \/ td # NoArray) => (inds # NoArray /\ NonIncreasing(p))

\* C15 as amended: wind speed and dewpoint are evaluated first, level by
\* level on the columns in fetched order, and the sort comes last: it happens
\* only when both exist and reorders them with p, t, u and v by the one index
\* array, so after it every level's wind speed and dewpoint are the ones of
\* that level's own u, v, t, p and humidity.
C15_DerivedThenSorted ==
    LET hum == Fetched("HUM")
        rh  == profile_data["HUM_TYPE"] = "RELHUM"
    IN  /\ pc \in {"dewpoint", "sort"} =>
              /\ inds = NoArray
              /\ p = Fetched("P") /\ t = Fetched("T")
              /\ wind_speed = [i \in 1..Len(u) |->
                                  WindSpeedOf(Fetched("U")[i], Fetched("V")[i])]
        /\ pc = "sort" =>
              td = [i \in 1..Len(hum) |->
                       IF rh THEN DewpointRH(Fetched("T")[i], hum[i])
                       ELSE DewpointQV(Fetched("P")[i], hum[i])]
        /\ inds # NoArray => (wind_speed # NoArray /\ td # NoArray)
        /\ pc = "plot" =>
              /\ NonIncreasing(p)
              /\ \A i \in 1..Len(p) :
                    /\ wind_speed[i] = WindSpeedOf(u[i], v[i])
                    /\ td[i] = IF rh THEN DewpointRH(t[i], hum[inds[i]])
                               ELSE DewpointQV(p[i], hum[inds[i]])

\* C15 witness: the derived quantities were computed on the example, whose
\* pressures are not in order, and the sort then moved every array
C15_Witness ==
    /\ pc = "plot"
    /\ Fetched("P") = ExamplePressures
    /\ inds = <<3, 5, 1, 4, 2>>
    /\ wind_speed[1] = WindSpeedOf(<<"U", 3>>, <<"V", 3>>)

-----------------------------------------------------------------------------
(* Properties of the fetch sequence *)

\* the order in which one attempt asks for its variables
FetchOrder == CORE_VARS \o HUM_VARS

\* the position of a name in FetchOrder
OrderOf(name) == CHOOSE j \in 1..Len(FetchOrder) : FetchOrder[j] = name

\* C16: the fetches of one candidate are consecutive and are a prefix of
\* T, U, V, P, RELHUM, QV, each name at most once: a candidate's first fetch
\* is T, and a further name is fetched only right after the name before it,
\* when that was an accepted core variable or a humidity name that was not
\* accepted; so a core variable that was not accepted and an accepted humidity
\* name are the last fetch of their candidate, a humidity name is fetched only
\* with T, U, V and P accepted, a candidate has at most 6 fetches and an
\* execution at most 24.  A fetch is accepted exactly when it returned a
\* column of at least MinSize values.
C16_FetchPrefix ==
    LET n == Len(calls) IN
    /\ \A i \in 1..n :
          IF i = 1 \/ calls[i - 1].run # calls[i].run
            THEN /\ calls[i].name = FetchOrder[1]
                 /\ i > 1 => calls[i - 1].run < calls[i].run
            ELSE /\ OrderOf(calls[i].name) = OrderOf(calls[i - 1].name) + 1
                 /\ calls[i - 1].accepted <=> calls[i - 1].name \in CoreNames
    /\ \A i \in 1..n :
          calls[i].name \in HumNames => CoreNames \subseteq AcceptedNames(calls[i].run)
    /\ \A c \in Runs : Cardinality(CallsOf(c)) <= Len(FetchOrder)
    /\ n <= NumRuns * Len(FetchOrder)
    /\ n >= 1 =>
          /\ calls[n].accepted <=>
                (response.kind = "column" /\ Size(response.column) >= MinSize)
          /\ (pc \in {"core", "hum"} /\ calls[n].run = ri) =>
                (calls[n].accepted <=> calls[n].name \in CoreNames)

\* C16 witness: every candidate fetched all six names and the execution
\* ended with 24 fetches
C16_Witness ==
    /\ pc = "returned"
    /\ Len(calls) = NumRuns * Len(FetchOrder)
    /\ \A c \in Runs : Cardinality(CallsOf(c)) = Len(FetchOrder)

-----------------------------------------------------------------------------
(* Properties of the candidate list *)

\* a is an earlier time than b
Earlier(a, b) ==
    LET fa == <<a.day, a.hour, a.minute, a.second, a.microsecond>>
        fb == <<b.day, b.hour, b.minute, b.second, b.microsecond>>
    IN  \E k \in 1..5 : fa[k] < fb[k] /\ \A j \in 1..(k - 1) : fa[j] = fb[j]

\* b is the time exactly 3 hours before a, on the day before when a is
\* earlier than 03:00
ThreeHoursBefore(a, b) ==
    IF a.hour >= 3 THEN b = [a EXCEPT !.hour = a.hour - 3]
    ELSE b = [a EXCEPT !.day = a.day - 1, !.hour = a.hour + 21]

\* C17: for every current time times_to_try holds exactly 4 candidates; the
\* first is on the day of now at the last multiple of 3 hours, so it is not
\* later than now and less than 3 hours before it; each further candidate is
\* exactly 3 hours before the one in front of it, on the previous day when
\* that crosses midnight; every candidate has an hour that is a multiple of 3
\* and zero minutes, seconds and microseconds; the list is strictly decreasing.
C17_CandidateList ==
    times_to_try # <<>> =>
        /\ Len(times_to_try) = 4
        /\ times_to_try[1].day = now.day
        /\ times_to_try[1].hour \in {now.hour, now.hour - 1, now.hour - 2}
        /\ ~Earlier(now, times_to_try[1])
        /\ ToSeconds(now) - ToSeconds(times_to_try[1]) < 3 * 3600
        /\ \A i \in 1..3 :
              /\ ThreeHoursBefore(times_to_try[i], times_to_try[i + 1])
              /\ Earlier(times_to_try[i + 1], times_to_try[i])
              /\ ToSeconds(times_to_try[i]) - ToSeconds(times_to_try[i + 1]) = 3 * 3600
        /\ \A i \in 1..4 :
              /\ times_to_try[i].hour \in {0, 3, 6, 9, 12, 15, 18, 21}
              /\ times_to_try[i].minute = 0
              /\ times_to_try[i].second = 0
              /\ times_to_try[i].microsecond = 0

\* C17 witness: at 04:59:59.999999 the list is 03:00 and 00:00 of that day
\* and 21:00 and 18:00 of the day before
C17_Witness ==
    /\ pc = "for"
    /\ now = [day |-> 2, hour |-> 4, minute |-> 59, second |-> 59, microsecond |-> 999999]
    /\ times_to_try[1] = [day |-> 2, hour |-> 3, minute |-> 0, second |-> 0, microsecond |-> 0]
    /\ times_to_try[2] = [day |-> 2, hour |-> 0, minute |-> 0, second |-> 0, microsecond |-> 0]
    /\ times_to_try[3] = [day |-> 1, hour |-> 21, minute |-> 0, second |-> 0, microsecond |-> 0]
    /\ times_to_try[4] = [day |-> 1, hour |-> 18, minute |-> 0, second |-> 0, microsecond |-> 0]

====
